---- MODULE Spec2Model ----
(***************************************************************************)
(* A model of src/Coupled-Cluster/helper_CC.py: the labelled-tensor        *)
(* contraction dispatcher ndot and the CCSD amplitude engine helper_CCSD.  *)
(*                                                                         *)
(* A dense array is the record [shape, data, err]: data lists the entries  *)
(* in logical row-major order (the order numpy's reshape reads them in),   *)
(* err is "ok" for an array and the exception's name for a call that       *)
(* raised.  A label string is a sequence of one-character strings.         *)
(***************************************************************************)
EXTENDS Integers, Sequences, FiniteSets, TLC

\* the contraction test bench: the operands of a call, what ndot and np.einsum
\* returned, what ndot with a prefactor returned
VARIABLES call, ndot_ret, ein_ret, scaled

\* the engine: mode ("new", "idle", "update", "failed"), the position in
\* update(), the engine's arrays, the locals of update(), the value returned
\* by the last call, the attributes set on self, the calls of the integral
\* provider, the constructor's arguments
VARIABLES mode, pc, eng, loc, ret, attrs, eri_calls, input

\* observations: writes into each array during the current update() call, the
\* arrays at the end of construction and at the start of the current update()
\* call, the update() calls made, the locals each local was computed from,
\* and <<the value the call before returned>> when the last call repeated it
VARIABLES writes, ref0, begin, nupd, tdeps, prev

vars == <<call, ndot_ret, ein_ret, scaled, mode, pc, eng, loc, ret, attrs, eri_calls, input,
          writes, ref0, begin, nupd, tdeps, prev>>

(***************************************************************************)
(* Arithmetic on shapes and indices (numpy's C-order ravel / unravel).     *)
(***************************************************************************)
RECURSIVE Prod(_)
Prod(s) == IF s = <<>> THEN 1 ELSE Head(s) * Prod(Tail(s))

RECURSIVE Unravel(_, _)
Unravel(n, sh) ==
    IF sh = <<>> THEN <<>>
    ELSE LET k == Len(sh)
         IN  Append(Unravel(n \div sh[k], SubSeq(sh, 1, k - 1)), n % sh[k])

RECURSIVE Ravel(_, _)
Ravel(idx, sh) ==
    IF sh = <<>> THEN 0
    ELSE LET k == Len(sh)
         IN  Ravel(SubSeq(idx, 1, k - 1), SubSeq(sh, 1, k - 1)) * sh[k] + idx[k]

RECURSIVE SumSeq(_)
SumSeq(s) == IF s = <<>> THEN 0 ELSE Head(s) + SumSeq(Tail(s))

Range(s) == {s[k] : k \in 1..Len(s)}

NoRepeat(s) == \A x, y \in 1..Len(s) : s[x] = s[y] => x = y

Arr(sh, d) == [shape |-> sh, data |-> d, err |-> "ok"]

Raise(exc) == [shape |-> <<>>, data |-> <<>>, err |-> exc]

IsErr(T) == T.err # "ok"

At(T, idx) == T.data[Ravel(idx, T.shape) + 1]

\* the array of shape sh whose entry at index tuple i is f(i)
Mk(sh, f(_)) == Arr(sh, [n \in 1..Prod(sh) |-> f(Unravel(n - 1, sh))])

\* ndarray.reshape: the same entries in row-major order, ValueError on a size change
reshape(T, sh) ==
    IF IsErr(T) THEN T
    ELSE IF Prod(sh) # Prod(T.shape) THEN Raise("ValueError")
    ELSE Arr(sh, T.data)

\* ndarray.T of a 2-d array
transpose2(T) ==
    IF IsErr(T) THEN T
    ELSE Mk(<<T.shape[2], T.shape[1]>>, LAMBDA i : At(T, <<i[2], i[1]>>))

\* np.dot of two 2-d arrays
dot(X, Y) ==
    IF IsErr(X) THEN X
    ELSE IF IsErr(Y) THEN Y
    ELSE IF X.shape[2] # Y.shape[1] THEN Raise("ValueError")
    ELSE Mk(<<X.shape[1], Y.shape[2]>>,
            LAMBDA i : SumSeq([k \in 1..X.shape[2] |->
                                 At(X, <<i[1], k - 1>>) * At(Y, <<k - 1, i[2]>>)]))

\* np.squeeze: drop the axes of extent 1
squeeze(T) ==
    IF IsErr(T) THEN T
    ELSE Arr(SelectSeq(T.shape, LAMBDA d : d # 1), T.data)

\* ndarray.transpose(perm): axis k of the result is axis perm[k] (1-based) of T
permute(T, perm) ==
    Mk([k \in 1..Len(perm) |-> T.shape[perm[k]]],
       LAMBDA i : At(T, [a \in 1..Len(perm) |->
                           i[CHOOSE k \in 1..Len(perm) : perm[k] = a]]))

RECURSIVE SetToSeq(_)
SetToSeq(S) ==
    IF S = {} THEN <<>>
    ELSE LET x == CHOOSE y \in S : TRUE IN <<x>> \o SetToSeq(S \ {x})

Max(S) == CHOOSE x \in S : \A y \in S : y <= x

\* position (1-based) of the first occurrence of x in s
Pos(s, x) == CHOOSE k \in 1..Len(s) : s[k] = x /\ \A j \in 1..(k - 1) : s[j] # x

\* elementwise product by a scalar
Scale(T, c) == IF IsErr(T) THEN T ELSE Arr(T.shape, [n \in 1..Len(T.data) |-> c * T.data[n]])

(***************************************************************************)
(* np.einsum with an explicit output: the reference summation.  ins is the *)
(* sequence of the operands' label strings, out the output labels, ops the *)
(* operands.  A label repeated inside one operand takes that operand's     *)
(* diagonal; across operands an axis of extent 1 is broadcast, any other   *)
(* disagreement of extents raises ValueError.                              *)
(***************************************************************************)
einsum(ins, out, ops) ==
    LET n      == Len(ops)
        labs   == UNION {Range(ins[k]) : k \in 1..n}
        axesOf(k, l) == {a \in 1..Len(ins[k]) : ins[k][a] = l}
        exts(l) == UNION {{ops[k].shape[a] : a \in axesOf(k, l)} : k \in 1..n}
        ext(l) == Max(exts(l))
        summed == SetToSeq(labs \ Range(out))
        oshape == [k \in 1..Len(out) |-> ext(out[k])]
        sshape == [k \in 1..Len(summed) |-> ext(summed[k])]
        term(o, s) ==
            LET val(l) == IF l \in Range(out) THEN o[Pos(out, l)] ELSE s[Pos(summed, l)]
                f(k)   == At(ops[k], [a \in 1..Len(ins[k]) |->
                                        IF ops[k].shape[a] = 1 THEN 0 ELSE val(ins[k][a])])
            IN  Prod([k \in 1..n |-> f(k)])
    IN  IF \E k \in 1..n : IsErr(ops[k])
            THEN ops[CHOOSE k \in 1..n : IsErr(ops[k])]
        ELSE IF \/ \E k \in 1..n : Len(ins[k]) # Len(ops[k].shape)
                \/ ~ (Range(out) \subseteq labs)
                \/ ~ NoRepeat(out)
                \/ \E k \in 1..n : \E l \in Range(ins[k]) :
                       Cardinality({ops[k].shape[a] : a \in axesOf(k, l)}) > 1
                \/ \E l \in labs : Cardinality(exts(l) \ {1}) > 1
            THEN Raise("ValueError")
        ELSE Mk(oshape, LAMBDA o :
                  SumSeq([m \in 1..Prod(sshape) |-> term(o, Unravel(m - 1, sshape))]))

(***************************************************************************)
(* np.tensordot(a, b, axes=(axes_a, axes_b)); the axes are 0-based and a   *)
(* negative axis counts from the end, as numpy normalises it.              *)
(***************************************************************************)
tensordot(a, b, axes_a, axes_b) ==
    LET nda   == Len(a.shape)
        ndb   == Len(b.shape)
        na    == Len(axes_a)
        norm(x, nd) == IF x < 0 THEN x + nd ELSE x
        axa   == [k \in 1..na |-> norm(axes_a[k], nda)]
        axb   == [k \in 1..na |-> norm(axes_b[k], ndb)]
        equal == \A k \in 1..na : a.shape[axa[k] + 1] = b.shape[axb[k] + 1]
        notinA == SelectSeq([k \in 1..nda |-> k - 1], LAMBDA k : k \notin Range(axa))
        notinB == SelectSeq([k \in 1..ndb |-> k - 1], LAMBDA k : k \notin Range(axb))
        newaxes_a == notinA \o axa
        newaxes_b == axb \o notinB
        N2    == Prod([k \in 1..na |-> a.shape[axa[k] + 1]])
        olda  == [k \in 1..Len(notinA) |-> a.shape[notinA[k] + 1]]
        oldb  == [k \in 1..Len(notinB) |-> b.shape[notinB[k] + 1]]
        at    == reshape(permute(a, [k \in 1..nda |-> newaxes_a[k] + 1]), <<Prod(olda), N2>>)
        bt    == reshape(permute(b, [k \in 1..ndb |-> newaxes_b[k] + 1]), <<N2, Prod(oldb)>>)
    IN  IF IsErr(a) THEN a
        ELSE IF IsErr(b) THEN b
        ELSE IF ~ equal THEN Raise("ValueError")
        ELSE IF ~ NoRepeat(axa) \/ ~ NoRepeat(axb) THEN Raise("ValueError")
        ELSE reshape(dot(at, bt), olda \o oldb)

\* Python's s[-n:] and s[:n]
Tail_n(s, n) == IF n = 0 \/ n >= Len(s) THEN s ELSE SubSeq(s, Len(s) - n + 1, Len(s))

Head_n(s, n) == IF n >= Len(s) THEN s ELSE SubSeq(s, 1, n)

\* str.find: 0-based position of the first occurrence, -1 when absent
find(s, x) == IF x \in Range(s) THEN Pos(s, x) - 1 ELSE -1

\* a faulty variant, "if prefactor: new_view *= prefactor": a scale of 0 is skipped
apply_prefactor_truthy(view, prefactor) ==
    IF prefactor # <<>> /\ prefactor[1] # 0 THEN Scale(view, prefactor[1]) ELSE view

\* "if prefactor is not None: new_view *= prefactor"
apply_prefactor(view, prefactor) ==
    IF prefactor # <<>> THEN Scale(view, prefactor[1]) ELSE view

\* the dispatch branch ndot takes
ndot_branch(input_left, input_right, output_ind) ==
    LET idx_removed == (Range(input_left) \cup Range(input_right)) \ Range(output_ind)
        keep_left   == Range(input_left) \ idx_removed
        keep_right  == Range(input_right) \ idx_removed
        rs          == Cardinality(idx_removed)
    IN  IF Tail_n(input_left, rs) = Head_n(input_right, rs) THEN "plain"
        ELSE IF Head_n(input_left, rs) = Tail_n(input_right, rs) THEN "both"
        ELSE IF Tail_n(input_left, rs) = Tail_n(input_right, rs) THEN "right"
        ELSE IF Head_n(input_left, rs) = Head_n(input_right, rs) THEN "left"
        ELSE IF keep_left = {} \/ keep_right = {} THEN "einsum"
        ELSE "tensordot"

\* ndot, lines 66-93: the product of the operands on the branch taken
ndot_view(branch, input_left, input_right, output_ind, op1, op2, dim_left, dim_right, dim_removed, left_pos, right_pos) ==
    CASE branch = "plain" ->
           dot(reshape(op1, <<dim_left, dim_removed>>),
               reshape(op2, <<dim_removed, dim_right>>))
      [] branch = "both" ->
           dot(transpose2(reshape(op1, <<dim_removed, dim_left>>)),
               transpose2(reshape(op2, <<dim_right, dim_removed>>)))
      [] branch = "right" ->
           dot(reshape(op1, <<dim_left, dim_removed>>),
               transpose2(reshape(op2, <<dim_right, dim_removed>>)))
      [] branch = "left" ->
           dot(transpose2(reshape(op1, <<dim_removed, dim_left>>)),
               reshape(op2, <<dim_removed, dim_right>>))
      [] branch = "einsum" ->
           einsum(<<input_left, input_right>>, output_ind, <<op1, op2>>)
      [] OTHER ->
           tensordot(op1, op2, left_pos, right_pos)

\* ndot, lines 95-100: make sure the resulting shape is correct
ndot_shape(new_view, shape_result, branch) ==
    IF IsErr(new_view) THEN new_view
    ELSE IF new_view.shape # shape_result /\ branch # "einsum"
         THEN IF Len(shape_result) > 0
              THEN reshape(new_view, shape_result)
              ELSE squeeze(new_view)
         ELSE new_view

\* ndot, lines 106-112: do the final transpose if needed
ndot_return(new_view, branch, tdot_result, output_ind) ==
    IF IsErr(new_view) THEN new_view
    ELSE IF branch = "einsum" THEN new_view
    ELSE IF tdot_result = output_ind THEN new_view
    ELSE einsum(<<tdot_result>>, output_ind, <<new_view>>)

(***************************************************************************)
(* ndot(input_string, op1, op2, prefactor).  The string "L,R->O" is given  *)
(* split; prefactor is <<>> for None and <<s>> for the scale s.  Each      *)
(* operand has one axis per label of its string.                           *)
(***************************************************************************)
ndot(input_left, input_right, output_ind, op1, op2, prefactor) ==
    LET set_left    == Range(input_left)
        set_right   == Range(input_right)
        set_out     == Range(output_ind)
        \* the right operand's extents overwrite the left operand's
        size_dict   == [s \in set_left \cup set_right |->
                          IF s \in set_right
                          THEN op2.shape[Max({k \in 1..Len(input_right) : input_right[k] = s})]
                          ELSE op1.shape[Max({k \in 1..Len(input_left) : input_left[k] = s})]]
        idx_removed == (set_left \cup set_right) \ set_out
        keep_left   == set_left \ idx_removed
        keep_right  == set_right \ idx_removed
        removed     == SetToSeq(idx_removed)
        left_pos    == [k \in 1..Len(removed) |-> find(input_left, removed[k])]
        right_pos   == [k \in 1..Len(removed) |-> find(input_right, removed[k])]
        tdot_result == SelectSeq(input_left \o input_right, LAMBDA s : s \notin idx_removed)
        dimOf(K)    == Prod([k \in 1..Cardinality(K) |-> size_dict[SetToSeq(K)[k]]])
        dim_left    == dimOf(keep_left)
        dim_right   == dimOf(keep_right)
        dim_removed == dimOf(idx_removed)
        shape_result == [k \in 1..Len(tdot_result) |-> size_dict[tdot_result[k]]]
        branch      == ndot_branch(input_left, input_right, output_ind)
    IN  ndot_return(
            apply_prefactor(
                ndot_shape(
                    ndot_view(branch, input_left, input_right, output_ind, op1, op2,
                              dim_left, dim_right, dim_removed, left_pos, right_pos),
                    shape_result, branch),
                prefactor),
            branch, tdot_result, output_ind)

\* the seeds of the arrays the model runs on (with these the reference state is
\* non-degenerate: Dia and Dijab have no zero entry), and an array filled from a seed
Seeds == {1, 3}

Fill(seed, sh) ==
    Arr(sh, [n \in 1..Prod(sh) |-> ((seed * n * n + 3 * n + seed) % 7) - 3])

(***************************************************************************)
(* The amplitude engine helper_CCSD.  Array entries are taken in the prime *)
(* field of P elements: sums, products and quotients by a nonzero entry    *)
(* are exact there, 0.5 and 0.25 are the inverses of 2 and 4.              *)
(***************************************************************************)
P == 11

Inv(y) == CHOOSE z \in 1..(P - 1) : (y * z) % P = 1

Half == Inv(2)

Quarter == Inv(4)

\* reduce every entry into 0..P-1
Norm(T) == IF IsErr(T) THEN T ELSE Arr(T.shape, [n \in 1..Len(T.data) |-> T.data[n] % P])

\* elementwise binary operation of two arrays of one shape
Elementwise(A, B, op(_, _)) ==
    IF IsErr(A) THEN A
    ELSE IF IsErr(B) THEN B
    ELSE IF A.shape # B.shape THEN Raise("ValueError")
    ELSE Arr(A.shape, [n \in 1..Len(A.data) |-> op(A.data[n], B.data[n]) % P])

Add(A, B) == Elementwise(A, B, LAMBDA x, y : x + y)

Sub(A, B) == Elementwise(A, B, LAMBDA x, y : x - y)

Div(A, B) == Elementwise(A, B, LAMBDA x, y : x * Inv(y % P))

\* ndarray.swapaxes(i, j), axes 0-based
swapaxes(T, i, j) ==
    IF IsErr(T) THEN T
    ELSE permute(T, [k \in 1..Len(T.shape) |->
                       IF k = i + 1 THEN j + 1 ELSE IF k = j + 1 THEN i + 1 ELSE k])

\* X[np.diag_indices_from(X)] = 0
zero_diag(T) ==
    IF IsErr(T) THEN T
    ELSE Mk(T.shape, LAMBDA i : IF \A k \in 1..Len(i) : i[k] = i[1] THEN 0 ELSE At(T, i))

\* self.o = slice(0, nocc), self.v = slice(nocc, nso); ":" is the whole axis
slice_lo(st, c) == IF c = "v" THEN st.nocc ELSE 0

slice_len(st, c) ==
    IF c = "o" THEN st.nocc ELSE IF c = "v" THEN st.nso - st.nocc ELSE st.nso

\* T[slice_dict[blk[1]], slice_dict[blk[2]], ...]; the empty blk is T itself
Slice(st, T, blk) ==
    IF IsErr(T) \/ blk = <<>> THEN T
    ELSE Mk([k \in 1..Len(blk) |-> slice_len(st, blk[k])],
            LAMBDA i : At(T, [k \in 1..Len(blk) |-> i[k] + slice_lo(st, blk[k])]))

\* an in-place write of V through the view T[blk]
WriteBlock(st, T, blk, V) ==
    IF blk = <<>> THEN V
    ELSE LET inside(i) == \A k \in 1..Len(blk) :
                             /\ i[k] >= slice_lo(st, blk[k])
                             /\ i[k] < slice_lo(st, blk[k]) + slice_len(st, blk[k])
         IN  Mk(T.shape, LAMBDA i :
                  IF inside(i) THEN At(V, [k \in 1..Len(blk) |-> i[k] - slice_lo(st, blk[k])])
                  ELSE At(T, i))

(***************************************************************************)
(* A value is either a fresh array (ref = "new") or a view onto a block of *)
(* one of the engine's arrays (ref = the attribute's name), which numpy's  *)
(* basic slicing returns and through which an in-place operation writes.   *)
(***************************************************************************)
New(T) == [ref |-> "new", blk |-> <<>>, arr |-> T]

View(base, blk) == [ref |-> base, blk |-> blk, arr |-> Raise("view")]

Deref(v, st) == IF v.ref = "new" THEN v.arr ELSE Slice(st, st[v.ref], v.blk)

\* the attributes self has when a method looks one up, outside __init__
Attrs == {"energy_rhf", "wfn", "C", "npC", "eps", "ndocc", "memory", "nmo", "MO",
          "nso", "nocc", "nvirt", "o", "v", "slice_dict", "F", "Dia", "Dijab", "t1", "t2"}

\* the accessors' label check: a string of the wrong length reaches
\* self.psi.clean() before the raise, a character that is no key of
\* slice_dict fails in the dictionary lookup
accessor(have, base, n, string) ==
    IF Len(string) # n
    THEN IF "psi" \in have THEN New(Raise("Exception")) ELSE New(Raise("AttributeError"))
    ELSE IF \E k \in 1..n : string[k] \notin {"o", "v"} THEN New(Raise("KeyError"))
    ELSE View(base, string)

get_MO(string) == accessor(Attrs, "MO", 4, string)

get_F(string) == accessor(Attrs, "F", 2, string)

\* a faulty variant of copy: the view itself, as when .copy() is left out
no_copy(v, st) == v

\* ndarray.copy(): a fresh array holding the entries of v
copy(v, st) == New(Deref(v, st))

(***************************************************************************)
(* Expressions and statements of the methods' bodies.                      *)
(***************************************************************************)
Self(n) == [k |-> "self", n |-> n]

GetF(str) == [k |-> "get_F", str |-> str]

GetMO(str) == [k |-> "get_MO", str |-> str]

Loc(n) == [k |-> "loc", n |-> n]

Copy(e) == [k |-> "copy", e |-> e]

Ndot(l, r, o, a, b, pre) == [k |-> "ndot", L |-> l, R |-> r, O |-> o, a |-> a, b |-> b, pre |-> pre]

Einsum(ins, out, ops) == [k |-> "einsum", ins |-> ins, out |-> out, ops |-> ops]

Swap(e, i, j) == [k |-> "swapaxes", e |-> e, i |-> i, j |-> j]

SMul(c, e) == [k |-> "smul", c |-> c, e |-> e]

Minus(a, b) == [k |-> "sub", a |-> a, b |-> b]

Plus(a, b) == [k |-> "add", a |-> a, b |-> b]

Over(a, b) == [k |-> "div", a |-> a, b |-> b]

Assign(line, t, e) == [s |-> "assign", line |-> line, t |-> t, e |-> e]

IAdd(line, t, e) == [s |-> "iadd", line |-> line, t |-> t, e |-> e]

ISub(line, t, e) == [s |-> "isub", line |-> line, t |-> t, e |-> e]

Diag0(line, t) == [s |-> "diag0", line |-> line, t |-> t, e |-> Loc(t)]

SetAttr(line, t, e) == [s |-> "setattr", line |-> line, t |-> t, e |-> e]

Call(line, t, f) == [s |-> "call", line |-> line, t |-> t, f |-> f, e |-> Self("t1")]

Return(line, e) == [s |-> "return", line |-> line, t |-> "", e |-> e]

\* the locals an expression reads
RECURSIVE Reads(_)
Reads(e) ==
    CASE e.k = "loc" -> {e.n}
      [] e.k \in {"copy", "swapaxes", "smul"} -> Reads(e.e)
      [] e.k \in {"ndot", "sub", "add", "div"} -> Reads(e.a) \cup Reads(e.b)
      [] e.k = "einsum" -> UNION {Reads(e.ops[i]) : i \in 1..Len(e.ops)}
      [] OTHER -> {}

\* the locals a statement reads: its expression's, and its target for an in-place one
StmtReads(st) ==
    CASE st.s \in {"iadd", "isub", "diag0"} -> Reads(st.e) \cup {st.t}
      [] st.s = "call" -> {}
      [] OTHER -> Reads(st.e)

RECURSIVE Eval(_, _)
Eval(e, env) ==
    LET val(x) == Deref(Eval(x, env), env.self)
    IN  CASE e.k = "self" -> View(e.n, <<>>)
          [] e.k = "get_F" -> get_F(e.str)
          [] e.k = "get_MO" -> get_MO(e.str)
          [] e.k = "loc" ->
               IF e.n \in DOMAIN env.loc THEN env.loc[e.n] ELSE New(Raise("UnboundLocalError"))
          [] e.k = "copy" -> copy(Eval(e.e, env), env.self)
          [] e.k = "ndot" ->
               LET op1 == val(e.a)
                   op2 == val(e.b)
               IN  IF IsErr(op1) THEN New(op1)
                   ELSE IF IsErr(op2) THEN New(op2)
                   ELSE New(Norm(ndot(e.L, e.R, e.O, op1, op2, e.pre)))
          [] e.k = "einsum" ->
               New(Norm(einsum(e.ins, e.out, [i \in 1..Len(e.ops) |-> val(e.ops[i])])))
          [] e.k = "swapaxes" -> New(swapaxes(val(e.e), e.i, e.j))
          [] e.k = "smul" -> New(Norm(Scale(val(e.e), e.c)))
          [] e.k = "sub" -> New(Sub(val(e.a), val(e.b)))
          [] e.k = "add" -> New(Add(val(e.a), val(e.b)))
          [] e.k = "div" -> New(Div(val(e.a), val(e.b)))

Bind(lc, t, v) == [x \in DOMAIN lc \cup {t} |-> IF x = t THEN v ELSE lc[x]]

\* write the array T through the value v: into the local t's own array, or
\* into the block of the engine's array that v views
Store(env, t, v, T) ==
    IF v.ref = "new"
    THEN [env EXCEPT !.loc = Bind(env.loc, t, New(T))]
    ELSE [env EXCEPT !.self[v.ref] = WriteBlock(env.self, env.self[v.ref], v.blk, T),
                     !.w[v.ref] = @ + 1]

\* Eqn 9
build_tilde_tau ==
    << Assign(218, "ttau", Copy(Self("t2"))),
       Assign(219, "tmp", SMul(Half, Einsum(<<<<"i", "a">>, <<"j", "b">>>>, <<"i", "j", "a", "b">>, <<Self("t1"), Self("t1")>>))),
       IAdd(220, "ttau", Loc("tmp")),
       ISub(221, "ttau", Swap(Loc("tmp"), 2, 3)),
       Return(222, Loc("ttau")) >>

\* Eqn 10
build_tau ==
    << Assign(227, "ttau", Copy(Self("t2"))),
       Assign(228, "tmp", Einsum(<<<<"i", "a">>, <<"j", "b">>>>, <<"i", "j", "a", "b">>, <<Self("t1"), Self("t1")>>)),
       IAdd(229, "ttau", Loc("tmp")),
       ISub(230, "ttau", Swap(Loc("tmp"), 2, 3)),
       Return(231, Loc("ttau")) >>

\* Eqn 3
build_Fae ==
    << Assign(236, "Fae", Copy(GetF(<<"v", "v">>))),
       Diag0(237, "Fae"),
       ISub(239, "Fae", Ndot(<<"m", "e">>, <<"m", "a">>, <<"a", "e">>, GetF(<<"o", "v">>), Self("t1"), <<Half>>)),
       IAdd(240, "Fae", Ndot(<<"m", "f">>, <<"m", "a", "f", "e">>, <<"a", "e">>, Self("t1"), GetMO(<<"o", "v", "v", "v">>), <<>>)),
       Call(242, "ttau", "build_tilde_tau"),
       ISub(242, "Fae", Ndot(<<"m", "n", "a", "f">>, <<"m", "n", "e", "f">>, <<"a", "e">>, Loc("ttau"), GetMO(<<"o", "o", "v", "v">>), <<Half>>)),
       Return(243, Loc("Fae")) >>

\* Eqn 4
build_Fmi ==
    << Assign(248, "Fmi", Copy(GetF(<<"o", "o">>))),
       Diag0(249, "Fmi"),
       IAdd(251, "Fmi", Ndot(<<"i", "e">>, <<"m", "e">>, <<"m", "i">>, Self("t1"), GetF(<<"o", "v">>), <<Half>>)),
       IAdd(252, "Fmi", Ndot(<<"n", "e">>, <<"m", "n", "i", "e">>, <<"m", "i">>, Self("t1"), GetMO(<<"o", "o", "o", "v">>), <<>>)),
       Call(254, "ttau", "build_tilde_tau"),
       IAdd(254, "Fmi", Ndot(<<"i", "n", "e", "f">>, <<"m", "n", "e", "f">>, <<"m", "i">>, Loc("ttau"), GetMO(<<"o", "o", "v", "v">>), <<Half>>)),
       Return(255, Loc("Fmi")) >>

\* a faulty variant of build_Fme: Fme = self.get_F('ov') without .copy()
build_Fme_no_copy ==
    << Assign(260, "Fme", GetF(<<"o", "v">>)),
       IAdd(261, "Fme", Ndot(<<"n", "f">>, <<"m", "n", "e", "f">>, <<"m", "e">>, Self("t1"), GetMO(<<"o", "o", "v", "v">>), <<>>)),
       Return(262, Loc("Fme")) >>

\* Eqn 5
build_Fme ==
    << Assign(260, "Fme", Copy(GetF(<<"o", "v">>))),
       IAdd(261, "Fme", Ndot(<<"n", "f">>, <<"m", "n", "e", "f">>, <<"m", "e">>, Self("t1"), GetMO(<<"o", "o", "v", "v">>), <<>>)),
       Return(262, Loc("Fme")) >>

\* Eqn 6
build_Wmnij ==
    << Assign(267, "Wmnij", Copy(GetMO(<<"o", "o", "o", "o">>))),
       Assign(269, "Pij", Ndot(<<"j", "e">>, <<"m", "n", "i", "e">>, <<"m", "n", "i", "j">>, Self("t1"), GetMO(<<"o", "o", "o", "v">>), <<>>)),
       IAdd(270, "Wmnij", Loc("Pij")),
       ISub(271, "Wmnij", Swap(Loc("Pij"), 2, 3)),
       Call(273, "tau", "build_tau"),
       IAdd(273, "Wmnij", Ndot(<<"i", "j", "e", "f">>, <<"m", "n", "e", "f">>, <<"m", "n", "i", "j">>, Loc("tau"), GetMO(<<"o", "o", "v", "v">>), <<Quarter>>)),
       Return(274, Loc("Wmnij")) >>

\* Eqn 7
build_Wabef ==
    << Assign(282, "Wabef", Copy(GetMO(<<"v", "v", "v", "v">>))),
       Assign(284, "Pab", Ndot(<<"m", "b">>, <<"a", "m", "e", "f">>, <<"a", "b", "e", "f">>, Self("t1"), GetMO(<<"v", "o", "v", "v">>), <<>>)),
       ISub(285, "Wabef", Loc("Pab")),
       IAdd(286, "Wabef", Swap(Loc("Pab"), 0, 1)),
       Call(288, "tau", "build_tau"),
       IAdd(288, "Wabef", Ndot(<<"m", "n", "a", "b">>, <<"m", "n", "e", "f">>, <<"a", "b", "e", "f">>, Loc("tau"), GetMO(<<"o", "o", "v", "v">>), <<Quarter>>)),
       Return(289, Loc("Wabef")) >>

\* Eqn 8
build_Wmbej ==
    << Assign(294, "Wmbej", Copy(GetMO(<<"o", "v", "v", "o">>))),
       IAdd(295, "Wmbej", Ndot(<<"j", "f">>, <<"m", "b", "e", "f">>, <<"m", "b", "e", "j">>, Self("t1"), GetMO(<<"o", "v", "v", "v">>), <<>>)),
       ISub(296, "Wmbej", Ndot(<<"n", "b">>, <<"m", "n", "e", "j">>, <<"m", "b", "e", "j">>, Self("t1"), GetMO(<<"o", "o", "v", "o">>), <<>>)),
       Assign(298, "tmp", SMul(Half, Self("t2"))),
       IAdd(299, "tmp", Einsum(<<<<"j", "f">>, <<"n", "b">>>>, <<"j", "n", "f", "b">>, <<Self("t1"), Self("t1")>>)),
       ISub(301, "Wmbej", Ndot(<<"j", "n", "f", "b">>, <<"m", "n", "e", "f">>, <<"m", "b", "e", "j">>, Loc("tmp"), GetMO(<<"o", "o", "v", "v">>), <<>>)),
       Return(302, Loc("Wmbej")) >>

\* the CCSD correlation energy of the current amplitudes
compute_corr_energy ==
    << Assign(370, "CCSDcorr_E", Einsum(<<<<"i", "a">>, <<"i", "a">>>>, <<>>, <<GetF(<<"o", "v">>), Self("t1")>>)),
       Assign(371, "CCSDcorr_E", Plus(Loc("CCSDcorr_E"), SMul(Quarter, Einsum(<<<<"i", "j", "a", "b">>, <<"i", "j", "a", "b">>>>, <<>>, <<GetMO(<<"o", "o", "v", "v">>), Self("t2")>>)))),
       Assign(372, "CCSDcorr_E", Plus(Loc("CCSDcorr_E"), SMul(Half, Einsum(<<<<"i", "j", "a", "b">>, <<"i", "a">>, <<"j", "b">>>>, <<>>, <<GetMO(<<"o", "o", "v", "v">>), Self("t1"), Self("t1")>>)))),
       Return(374, Loc("CCSDcorr_E")) >>

Body(f) ==
    CASE f = "build_tilde_tau" -> build_tilde_tau
      [] f = "build_tau" -> build_tau
      [] f = "build_Fae" -> build_Fae
      [] f = "build_Fmi" -> build_Fmi
      [] f = "build_Fme" -> build_Fme
      [] f = "build_Wmnij" -> build_Wmnij
      [] f = "build_Wabef" -> build_Wabef
      [] f = "build_Wmbej" -> build_Wmbej
      [] f = "compute_corr_energy" -> compute_corr_energy

None == New(Raise("None"))

\* the frame of a method call on the engine st: no locals yet, nothing returned
Frame(st, wr) == [self |-> st, loc |-> <<>>, w |-> wr, ret |-> None]

\* the array an in-place statement leaves in its target
InPlace(op, A, B) ==
    CASE op = "iadd" -> Add(A, B)
      [] op = "isub" -> Sub(A, B)
      [] op = "diag0" -> zero_diag(A)

\* one statement, given the value v of its expression and, for a call, the
\* frame r in which the method called has ended
ExecStmt(st, env, v, r) ==
    CASE st.s = "assign" -> [env EXCEPT !.loc = Bind(env.loc, st.t, v)]
      [] st.s \in {"iadd", "isub", "diag0"} ->
           Store(env, st.t, env.loc[st.t],
                 InPlace(st.s, Deref(env.loc[st.t], env.self), Deref(v, env.self)))
      [] st.s = "setattr" ->
           [env EXCEPT !.self[st.t] = Deref(v, env.self), !.w[st.t] = @ + 1]
      [] st.s = "call" ->
           [env EXCEPT !.self = r.self, !.w = r.w, !.loc = Bind(env.loc, st.t, r.ret)]
      [] st.s = "return" -> [env EXCEPT !.ret = v]

RECURSIVE Exec(_, _), Run(_, _)
\* one statement
Exec(st, env) ==
    ExecStmt(st, env,
             IF st.s = "call" THEN None ELSE Eval(st.e, env),
             IF st.s = "call" THEN Run(Body(st.f), Frame(env.self, env.w)) ELSE env)

\* a method body, to its end or to its return
Run(body, env) ==
    IF body = <<>> \/ env.ret # None THEN env ELSE Run(Tail(body), Exec(Head(body), env))

\* a call of the method f on the engine st: the engine afterwards, the write
\* counts and the array returned
Result(r) == [self |-> r.self, w |-> r.w, val |-> Deref(r.ret, r.self)]

CallMethod(f, st, wr) == Result(Run(Body(f), Frame(st, wr)))

\* update(): build intermediates
update_intermediates ==
    << Call(309, "Fae", "build_Fae"),
       Call(310, "Fmi", "build_Fmi"),
       Call(311, "Fme", "build_Fme") >>

\* update(): RHS side of the t1 equations
update_rhs_T1 ==
    << Assign(314, "rhs_T1", Copy(GetF(<<"o", "v">>))),
       IAdd(315, "rhs_T1", Ndot(<<"i", "e">>, <<"a", "e">>, <<"i", "a">>, Self("t1"), Loc("Fae"), <<>>)),
       ISub(316, "rhs_T1", Ndot(<<"m", "a">>, <<"m", "i">>, <<"i", "a">>, Self("t1"), Loc("Fmi"), <<>>)),
       IAdd(317, "rhs_T1", Ndot(<<"i", "m", "a", "e">>, <<"m", "e">>, <<"i", "a">>, Self("t2"), Loc("Fme"), <<>>)),
       ISub(318, "rhs_T1", Ndot(<<"n", "f">>, <<"n", "a", "i", "f">>, <<"i", "a">>, Self("t1"), GetMO(<<"o", "v", "o", "v">>), <<>>)),
       ISub(319, "rhs_T1", Ndot(<<"i", "m", "e", "f">>, <<"m", "a", "e", "f">>, <<"i", "a">>, Self("t2"), GetMO(<<"o", "v", "v", "v">>), <<Half>>)),
       ISub(320, "rhs_T1", Ndot(<<"m", "n", "a", "e">>, <<"n", "m", "e", "i">>, <<"i", "a">>, Self("t2"), GetMO(<<"o", "o", "v", "o">>), <<Half>>)) >>

\* a faulty variant of the terms with Fae, Fmi, Fme: line 329, the exchanged
\* term of P_(ab), is left out
update_rhs_T2_F_one_sided ==
    << Assign(323, "rhs_T2", Copy(GetMO(<<"o", "o", "v", "v">>))),
       Assign(326, "tmp", Minus(Loc("Fae"), SMul(Half, Ndot(<<"m", "b">>, <<"m", "e">>, <<"b", "e">>, Self("t1"), Loc("Fme"), <<>>)))),
       Assign(327, "Pab", Ndot(<<"i", "j", "a", "e">>, <<"b", "e">>, <<"i", "j", "a", "b">>, Self("t2"), Loc("tmp"), <<>>)),
       IAdd(328, "rhs_T2", Loc("Pab")),
       Assign(332, "tmp", Plus(Loc("Fmi"), SMul(Half, Ndot(<<"j", "e">>, <<"m", "e">>, <<"m", "j">>, Self("t1"), Loc("Fme"), <<>>)))),
       Assign(333, "Pij", Ndot(<<"i", "m", "a", "b">>, <<"m", "j">>, <<"i", "j", "a", "b">>, Self("t2"), Loc("tmp"), <<>>)),
       ISub(334, "rhs_T2", Loc("Pij")),
       IAdd(335, "rhs_T2", Swap(Loc("Pij"), 0, 1)) >>

\* update(): RHS side of the t2 equations, the terms P_(ab) and P_(ij) with Fae, Fmi, Fme
update_rhs_T2_F ==
    << Assign(323, "rhs_T2", Copy(GetMO(<<"o", "o", "v", "v">>))),
       Assign(326, "tmp", Minus(Loc("Fae"), SMul(Half, Ndot(<<"m", "b">>, <<"m", "e">>, <<"b", "e">>, Self("t1"), Loc("Fme"), <<>>)))),
       Assign(327, "Pab", Ndot(<<"i", "j", "a", "e">>, <<"b", "e">>, <<"i", "j", "a", "b">>, Self("t2"), Loc("tmp"), <<>>)),
       IAdd(328, "rhs_T2", Loc("Pab")),
       ISub(329, "rhs_T2", Swap(Loc("Pab"), 2, 3)),
       Assign(332, "tmp", Plus(Loc("Fmi"), SMul(Half, Ndot(<<"j", "e">>, <<"m", "e">>, <<"m", "j">>, Self("t1"), Loc("Fme"), <<>>)))),
       Assign(333, "Pij", Ndot(<<"i", "m", "a", "b">>, <<"m", "j">>, <<"i", "j", "a", "b">>, Self("t2"), Loc("tmp"), <<>>)),
       ISub(334, "rhs_T2", Loc("Pij")),
       IAdd(335, "rhs_T2", Swap(Loc("Pij"), 0, 1)) >>

\* update(): the terms with Wmnij and Wabef
update_rhs_T2_ladder ==
    << Call(337, "tmp_tau", "build_tau"),
       Call(338, "Wmnij", "build_Wmnij"),
       Call(339, "Wabef", "build_Wabef"),
       IAdd(340, "rhs_T2", Ndot(<<"m", "n", "a", "b">>, <<"m", "n", "i", "j">>, <<"i", "j", "a", "b">>, Loc("tmp_tau"), Loc("Wmnij"), <<Half>>)),
       IAdd(341, "rhs_T2", Ndot(<<"i", "j", "e", "f">>, <<"a", "b", "e", "f">>, <<"i", "j", "a", "b">>, Loc("tmp_tau"), Loc("Wabef"), <<Half>>)) >>

\* update(): the term P_(ij) P_(ab) with Wmbej
update_rhs_T2_ring ==
    << Assign(346, "tmp", Ndot(<<"i", "e">>, <<"m", "b", "e", "j">>, <<"m", "b", "i", "j">>, Self("t1"), GetMO(<<"o", "v", "v", "o">>), <<>>)),
       Assign(347, "tmp", Ndot(<<"m", "a">>, <<"m", "b", "i", "j">>, <<"i", "j", "a", "b">>, Self("t1"), Loc("tmp"), <<>>)),
       Call(348, "Wmbej", "build_Wmbej"),
       Assign(349, "Pijab", Minus(Ndot(<<"i", "m", "a", "e">>, <<"m", "b", "e", "j">>, <<"i", "j", "a", "b">>, Self("t2"), Loc("Wmbej"), <<>>), Loc("tmp"))),
       IAdd(351, "rhs_T2", Loc("Pijab")),
       ISub(352, "rhs_T2", Swap(Loc("Pijab"), 2, 3)),
       ISub(353, "rhs_T2", Swap(Loc("Pijab"), 0, 1)),
       IAdd(354, "rhs_T2", Swap(Swap(Loc("Pijab"), 0, 1), 2, 3)) >>

\* update(): the term P_(ij) with the vvvo integrals
update_rhs_T2_vvvo ==
    << Assign(356, "Pij", Ndot(<<"i", "e">>, <<"a", "b", "e", "j">>, <<"i", "j", "a", "b">>, Self("t1"), GetMO(<<"v", "v", "v", "o">>), <<>>)),
       IAdd(357, "rhs_T2", Loc("Pij")),
       ISub(358, "rhs_T2", Swap(Loc("Pij"), 0, 1)) >>

\* update(): the term P_(ab) with the ovoo integrals
update_rhs_T2_ovoo ==
    << Assign(360, "Pab", Ndot(<<"m", "a">>, <<"m", "b", "i", "j">>, <<"i", "j", "a", "b">>, Self("t1"), GetMO(<<"o", "v", "o", "o">>), <<>>)),
       ISub(361, "rhs_T2", Loc("Pab")),
       IAdd(362, "rhs_T2", Swap(Loc("Pab"), 2, 3)) >>

\* update(): the new T1 amplitudes
update_t1 ==
    << SetAttr(365, "t1", Over(Loc("rhs_T1"), Self("Dia"))) >>

\* update(): the new T2 amplitudes
update_t2 ==
    << SetAttr(366, "t2", Over(Loc("rhs_T2"), Self("Dijab"))) >>

\* a faulty ordering of update(): t1 is replaced as soon as rhs_T1 is complete
update_t1_early ==
    update_intermediates \o update_rhs_T1 \o update_t1 \o update_rhs_T2_F
      \o update_rhs_T2_ladder \o update_rhs_T2_ring \o update_rhs_T2_vvvo
      \o update_rhs_T2_ovoo \o update_t2

\* a faulty ordering of update(): the t1 residual ahead of the intermediates
update_rhs_T1_first ==
    update_rhs_T1 \o update_intermediates \o update_rhs_T2_F \o update_rhs_T2_ladder
      \o update_rhs_T2_ring \o update_rhs_T2_vvvo \o update_rhs_T2_ovoo
      \o update_t1 \o update_t2

\* the body of update(), in source order
update ==
    update_intermediates \o update_rhs_T1 \o update_rhs_T2_F \o update_rhs_T2_ladder
      \o update_rhs_T2_ring \o update_rhs_T2_vvvo \o update_rhs_T2_ovoo
      \o update_t1 \o update_t2

(***************************************************************************)
(* Construction.  The reference provider (Psi4: the core Hamiltonian, the  *)
(* MO coefficients, the spin-orbital integrals) is outside the program;    *)
(* its output is drawn from a seed.                                        *)
(***************************************************************************)
\* mints.ao_kinetic() + mints.ao_potential(): a symmetric nmo x nmo matrix
ao_core(seed, nmo) ==
    Mk(<<nmo, nmo>>, LAMBDA i : (seed * (i[1] + i[2] + 1) + 3 * i[1] * i[2] + 2) % P)

\* wfn.Ca(): the MO coefficients
Ca(seed, nmo) ==
    Mk(<<nmo, nmo>>, LAMBDA i : IF i[1] = i[2] THEN 1 ELSE IF i[1] < i[2] THEN seed % P ELSE 0)

\* mints.mo_spin_eri(C, C): the rank-4 integral tensor; antisymmetrized under
\* exchange of its first two and of its last two axes when antisym holds
mo_spin_eri(seed, nso, antisym) ==
    LET G == Norm(Fill(seed, <<nso, nso, nso, nso>>))
    IN  IF antisym
        THEN Mk(G.shape, LAMBDA i :
                  (At(G, i) - At(G, <<i[2], i[1], i[3], i[4]>>)
                     - At(G, <<i[1], i[2], i[4], i[3]>>)
                     + At(G, <<i[2], i[1], i[4], i[3]>>)) % P)
        ELSE G

\* the attributes __init__ has set when it reaches the memory guard
GuardAttrs == {"energy_rhf", "wfn", "C", "npC", "eps", "ndocc", "memory", "nmo"}

\* the module's global names
Globals == {"time", "np", "ndot", "helper_CCSD"}

Unset == Raise("unset")

NoEngine ==
    [MO |-> Unset, F |-> Unset, Dia |-> Unset, Dijab |-> Unset, t1 |-> Unset, t2 |-> Unset,
     nso |-> 0, nocc |-> 0]

\* helper_CCSD.__init__; memory and the footprint are in units of 1e-9 GB
helper_CCSD_init(inp) ==
    LET nmo   == inp.nmo
        npC   == Ca(inp.seed, nmo)
        H_ao  == ao_core(inp.seed, nmo)
        \* H = np.einsum('uj,vi,uv', npC, npC, H): the implicit output is 'ij'
        H_mo  == Norm(einsum(<< <<"u", "j">>, <<"v", "i">>, <<"u", "v">> >>, <<"i", "j">>,
                             <<npC, npC, H_ao>>))
        \* np.repeat along both axes, then the spin mask
        H     == Mk(<<2 * nmo, 2 * nmo>>, LAMBDA i :
                      IF i[1] % 2 = i[2] % 2 THEN At(H_mo, <<i[1] \div 2, i[2] \div 2>>) ELSE 0)
        ERI_Size == (nmo * nmo * nmo * nmo) * 128
        memory_footprint == ERI_Size * 5
        nso   == nmo * 2
        nocc  == inp.ndocc * 2
        nvirt == nso - nocc
        dims  == [nso |-> nso, nocc |-> nocc]
        MO    == mo_spin_eri(inp.seed, nso, inp.antisym)
        F     == Add(H, Norm(einsum(<< <<"p", "m", "q", "m">> >>, <<"p", "q">>,
                                    << Slice(dims, MO, <<":", "o", ":", "o">>) >>)))
        Focc(i) == At(F, <<i, i>>)
        Fvir(a) == At(F, <<nocc + a, nocc + a>>)
        Dia   == Mk(<<nocc, nvirt>>, LAMBDA i : (Focc(i[1]) - Fvir(i[2])) % P)
        Dijab == Mk(<<nocc, nocc, nvirt, nvirt>>, LAMBDA i :
                      (Focc(i[1]) + Focc(i[2]) - Fvir(i[3]) - Fvir(i[4])) % P)
        t1    == Mk(<<nocc, nvirt>>, LAMBDA i : 0)
        t2    == Div(Slice(dims, MO, <<"o", "o", "v", "v">>), Dijab)
    IN  IF memory_footprint > inp.memory
        THEN \* self.psi.clean(), then raise Exception("... %4.2f GB." % (..., numpy_memory))
             [exc |-> IF "psi" \notin GuardAttrs THEN "AttributeError"
                      ELSE IF "numpy_memory" \notin Globals THEN "NameError"
                      ELSE "Exception",
              eri_calls |-> 0, attrs |-> GuardAttrs, self |-> NoEngine]
        ELSE [exc |-> "ok", eri_calls |-> 1, attrs |-> Attrs,
              self |-> [MO |-> MO, F |-> F, Dia |-> Dia, Dijab |-> Dijab, t1 |-> t1, t2 |-> t2,
                        nso |-> nso, nocc |-> nocc]]

(***************************************************************************)
(* The engine as a state machine: construction, then calls of update(),    *)
(* of the builders, of compute_corr_energy() and of the accessors.  An     *)
(* update() call advances one statement at a time.                         *)
(***************************************************************************)
MaxUpdates == 2

\* memory budgets, in units of 1e-9 GB: the default of 2 GB, and one just below
\* the footprint of 10240e-9 GB that nmo = 2 gives
Budgets == {2000000000, 10239}

Inputs ==
    {[nmo |-> 2, ndocc |-> 1, memory |-> m, seed |-> sd, antisym |-> a] :
        m \in Budgets, sd \in Seeds, a \in BOOLEAN}

Builders == {"build_tilde_tau", "build_tau", "build_Fae", "build_Fmi", "build_Fme",
             "build_Wmnij", "build_Wabef", "build_Wmbej"}

Six == {"Fae", "Fmi", "Fme", "Wmnij", "Wabef", "Wmbej"}

\* the strings handed to the accessors
LabelStrings ==
    { <<"o", "o">>, <<"o", "v">>, <<"v", "o">>, <<"v", "v">>,
      <<"o", "o", "v", "v">>, <<"v", "o", "v", "o">>, <<"o", "v", "v", "v">>,
      <<"v", "v", "v", "v">>, <<"o", "o", "o", "o">>,
      <<>>, <<"o">>, <<"o", "o", "v">>, <<"o", "o", "v", "v", "v">>,
      <<"o", "x">>, <<"O", "V">>, <<"o", "v", "x", "v">>, <<"p", "q", "r", "s">> }

NoWrites == [MO |-> 0, F |-> 0, Dia |-> 0, Dijab |-> 0, t1 |-> 0, t2 |-> 0]

Returned(f, arg, val) == [f |-> f, arg |-> arg, val |-> val]

NoRet == Returned("", <<>>, Raise("None"))

engvars == <<mode, pc, eng, loc, writes, ret, attrs, eri_calls, input, ref0, begin, nupd, tdeps, prev>>

ndotvars == <<call, ndot_ret, ein_ret, scaled>>

\* the engine, not constructed
NoEngineState ==
    /\ mode = "new"
    /\ pc = 0
    /\ eng = NoEngine
    /\ loc = <<>>
    /\ writes = NoWrites
    /\ ret = NoRet
    /\ attrs = {}
    /\ eri_calls = 0
    /\ ref0 = NoEngine
    /\ begin = NoEngine
    /\ nupd = 0
    /\ tdeps = <<>>
    /\ prev = <<>>

(***************************************************************************)
(* The contraction test bench: test_ndot(string, op1, op2) evaluates the   *)
(* reference np.einsum and ndot on the same operands.  The operands are    *)
(* filled from a seed, standing for np.random.rand.                        *)
(***************************************************************************)
MaxExt == 2

TestDim == 4

Scales == {-1, 0, 2}

Sp(l, r, o) == [L |-> l, R |-> r, O |-> o]

\* the contractions of the source's self-test, on arrays of extent TestDim
TestSpecs ==
    { Sp(<<"a","b","c","d">>, <<"c","d","e","f">>, <<"a","b","e","f">>),
      Sp(<<"a","c","b","d">>, <<"c","d","e","f">>, <<"a","b","e","f">>),
      Sp(<<"a","c","b","d">>, <<"c","d","e","f">>, <<"a","b","f","e">>),
      Sp(<<"m","n","a","b">>, <<"m","n","i","j">>, <<"i","j","a","b">>),
      Sp(<<"c","d">>, <<"c","d","e","f">>, <<"e","f">>),
      Sp(<<"c","e">>, <<"c","d","e","f">>, <<"d","f">>),
      Sp(<<"n","f">>, <<"n","a","i","f">>, <<"i","a">>) }

\* further label strings, on arrays of every shape with extents in 1..MaxExt
SmallSpecs ==
    { Sp(<<"a","b">>, <<"b","c">>, <<"a","c">>),
      Sp(<<"b","a">>, <<"c","b">>, <<"a","c">>),
      Sp(<<"a","b">>, <<"c","b">>, <<"a","c">>),
      Sp(<<"b","a">>, <<"b","c">>, <<"a","c">>),
      Sp(<<"a","b">>, <<"b","c">>, <<"c","a">>),
      Sp(<<"a","c">>, <<"a","b","c">>, <<"b">>),
      Sp(<<"a","b","c">>, <<"b","d">>, <<"a","c","d">>),
      Sp(<<"a","b","c">>, <<"b","c","d">>, <<"a","d">>),
      Sp(<<"a","b">>, <<"a","b">>, <<>>),
      Sp(<<"a">>, <<"b">>, <<"a","b">>),
      Sp(<<"a","b">>, <<"a","b">>, <<"a","b">>),
      Sp(<<"a","b">>, <<"a","b">>, <<"a">>),
      Sp(<<"c","b">>, <<"b","c">>, <<"b">>),
      Sp(<<"a","b">>, <<"b","c">>, <<"b","c">>),
      Sp(<<"a","b">>, <<"c","d">>, <<"b","d">>) }

Operands(sp, shA, shB, seed) ==
    [L |-> sp.L, R |-> sp.R, O |-> sp.O,
     op1 |-> Fill(seed, shA), op2 |-> Fill(2 * seed + 1, shB)]

NoCall == [L |-> <<>>, R |-> <<>>, O |-> <<>>, op1 |-> Raise("none"), op2 |-> Raise("none")]

NdotInit ==
    /\ \E seed \in Seeds :
         \/ \E sp \in TestSpecs :
              call = Operands(sp, [k \in 1..Len(sp.L) |-> TestDim],
                                  [k \in 1..Len(sp.R) |-> TestDim], seed)
         \/ \E sp \in SmallSpecs :
              \E shA \in [1..Len(sp.L) -> 1..MaxExt], shB \in [1..Len(sp.R) -> 1..MaxExt] :
                 call = Operands(sp, shA, shB, seed)
    /\ ndot_ret = <<>>
    /\ ein_ret = <<>>
    /\ scaled = <<>>
    /\ NoEngineState
    /\ input = CHOOSE i \in Inputs : TRUE

\* test_ndot: ein_ret = np.einsum(string, op1, op2); ndot_ret = ndot(string, op1, op2)
test_ndot ==
    /\ ndot_ret = <<>>
    /\ ein_ret' = <<einsum(<<call.L, call.R>>, call.O, <<call.op1, call.op2>>)>>
    /\ ndot_ret' = <<ndot(call.L, call.R, call.O, call.op1, call.op2, <<>>)>>
    /\ UNCHANGED <<call, scaled>>
    /\ UNCHANGED engvars

\* ndot(string, op1, op2, prefactor=s)
RunNdotScaled ==
    /\ scaled = <<>>
    /\ \E s \in Scales :
         scaled' = <<[s |-> s,
                      ret |-> ndot(call.L, call.R, call.O, call.op1, call.op2, <<s>>)]>>
    /\ UNCHANGED <<call, ndot_ret, ein_ret>>
    /\ UNCHANGED engvars

NdotNext == test_ndot \/ RunNdotScaled

SpecNdot == NdotInit /\ [][NdotNext]_vars


Init ==
    /\ input \in Inputs
    /\ NoEngineState
    /\ call = NoCall /\ ndot_ret = <<>> /\ ein_ret = <<>> /\ scaled = <<>>

\* helper_CCSD(psi, energy, mol, memory)
Construct ==
    /\ mode = "new"
    /\ \E r \in {helper_CCSD_init(input)} :
           /\ mode' = IF r.exc = "ok" THEN "idle" ELSE "failed"
           /\ eng' = r.self
           /\ ref0' = r.self
           /\ attrs' = r.attrs
           /\ eri_calls' = r.eri_calls
           /\ ret' = Returned("__init__", <<>>, Raise(IF r.exc = "ok" THEN "None" ELSE r.exc))
    /\ UNCHANGED <<pc, loc, writes, input, begin, nupd, tdeps, prev>>
    /\ UNCHANGED ndotvars

\* the call update(): entry into the body
UpdateCall ==
    /\ mode = "idle"
    /\ nupd < MaxUpdates
    /\ mode' = "update"
    /\ pc' = 1
    /\ loc' = <<>>
    /\ writes' = NoWrites
    /\ tdeps' = <<>>
    /\ begin' = eng
    /\ ret' = NoRet
    /\ prev' = <<>>
    /\ UNCHANGED <<eng, attrs, eri_calls, input, ref0, nupd>>
    /\ UNCHANGED ndotvars

\* the statement of update() at pc; after the last one the call returns
UpdateStep ==
    /\ mode = "update"
    /\ \E st \in {update[pc]} :
       \E env \in {Exec(st, [self |-> eng, loc |-> loc, w |-> writes, ret |-> None])} :
       LET rd   == StmtReads(st) \ {st.t}
           from == rd \cup UNION {tdeps[x] : x \in rd \cap DOMAIN tdeps}
           kept == IF st.s \in {"iadd", "isub", "diag0"} /\ st.t \in DOMAIN tdeps
                   THEN tdeps[st.t] ELSE {}
       IN  /\ eng' = env.self
           /\ writes' = env.w
           /\ tdeps' = IF st.s = "setattr" THEN tdeps ELSE Bind(tdeps, st.t, kept \cup from)
           /\ IF pc = Len(update)
              THEN /\ mode' = "idle" /\ pc' = 0 /\ loc' = <<>> /\ nupd' = nupd + 1
                   /\ ret' = Returned("update", <<>>, Raise("None"))
              ELSE /\ mode' = "update" /\ pc' = pc + 1 /\ loc' = env.loc /\ nupd' = nupd
                   /\ ret' = ret
    /\ UNCHANGED <<attrs, eri_calls, input, ref0, begin, prev>>
    /\ UNCHANGED ndotvars

\* a call of an intermediate builder from outside update()
CallBuilder ==
    /\ mode = "idle"
    /\ \E f \in Builders :
         \E r \in {CallMethod(f, eng, NoWrites)} :
             /\ eng' = r.self
             /\ ret' = Returned(f, <<>>, r.val)
             /\ prev' = IF ret.f = f THEN <<ret.val>> ELSE <<>>
    /\ UNCHANGED <<mode, pc, loc, writes, attrs, eri_calls, input, ref0, begin, nupd, tdeps>>
    /\ UNCHANGED ndotvars

\* a call of compute_corr_energy()
CallEnergy ==
    /\ mode = "idle"
    /\ \E r \in {CallMethod("compute_corr_energy", eng, NoWrites)} :
           /\ eng' = r.self
           /\ ret' = Returned("compute_corr_energy", <<>>, r.val)
           /\ prev' = IF ret.f = "compute_corr_energy" THEN <<ret.val>> ELSE <<>>
    /\ UNCHANGED <<mode, pc, loc, writes, attrs, eri_calls, input, ref0, begin, nupd, tdeps>>
    /\ UNCHANGED ndotvars

\* a call get_MO(string)
CallGetMO ==
    /\ mode = "idle"
    /\ \E string \in LabelStrings :
         ret' = Returned("get_MO", string, Deref(get_MO(string), eng))
    /\ prev' = <<>>
    /\ UNCHANGED <<mode, pc, eng, loc, writes, attrs, eri_calls, input, ref0, begin, nupd, tdeps>>
    /\ UNCHANGED ndotvars

\* a call get_F(string)
CallGetF ==
    /\ mode = "idle"
    /\ \E string \in LabelStrings :
         ret' = Returned("get_F", string, Deref(get_F(string), eng))
    /\ prev' = <<>>
    /\ UNCHANGED <<mode, pc, eng, loc, writes, attrs, eri_calls, input, ref0, begin, nupd, tdeps>>
    /\ UNCHANGED ndotvars

\* the engine under its driver: construction, update() and the pure calls
Next == Construct \/ UpdateCall \/ UpdateStep \/ CallBuilder \/ CallEnergy

Spec == Init /\ [][Next]_vars

\* the engine under a caller of the accessors
AccessNext == Construct \/ CallGetMO \/ CallGetF

SpecAccess == Init /\ [][AccessNext]_vars

(***************************************************************************)
(* Claims about the engine, checked under Spec.                            *)
(***************************************************************************)
Constructed == mode \in {"idle", "update"}

Zeros(T) == [n \in 1..Len(T.data) |-> 0]

NonZero(T) == \A n \in 1..Len(T.data) : T.data[n] # 0

\* T[p,q,r,s] = -T[q,p,r,s] and T[p,q,r,s] = -T[p,q,s,r], in the field
Antisymmetric(T) ==
    /\ ~ IsErr(T)
    /\ Add(T, swapaxes(T, 0, 1)).data = Zeros(T)
    /\ Add(T, swapaxes(T, 2, 3)).data = Zeros(T)

\* C3: with MO antisymmetric in its first two and in its last two axes and no
\* zero denominator, t2 is antisymmetric in i,j and in a,b in every state of
\* a constructed engine: after construction and after every update().
C3_t2_antisymmetric ==
    (Constructed /\ Antisymmetric(eng.MO) /\ NonZero(eng.Dia) /\ NonZero(eng.Dijab))
        => Antisymmetric(eng.t2)

\* an update() has replaced t2 by other, nonzero amplitudes of an antisymmetric MO
C3_witness ==
    /\ mode = "idle" /\ nupd >= 1 /\ ret.f = "update"
    /\ Antisymmetric(eng.MO) /\ NonZero(eng.Dia) /\ NonZero(eng.Dijab)
    /\ eng.t2 # begin.t2
    /\ \E n \in 1..Len(eng.t2.data) : eng.t2.data[n] # 0

\* C4: MO, F, Dia and Dijab of a constructed engine hold the values they had
\* at the end of construction, whatever calls were made and at every statement
\* of update().
C4_integrals_unchanged ==
    Constructed =>
        /\ eng.MO = ref0.MO
        /\ eng.F = ref0.F
        /\ eng.Dia = ref0.Dia
        /\ eng.Dijab = ref0.Dijab

\* compute_corr_energy() has returned after an update() that changed t1 and t2
C4_witness ==
    /\ mode = "idle" /\ nupd >= 1 /\ ret.f = "compute_corr_energy"
    /\ eng.t1 # ref0.t1 /\ eng.t2 # ref0.t2
    /\ eng.MO = ref0.MO /\ eng.F = ref0.F

\* C5: a construction that fails at the memory guard fails with the guard's
\* own exception (raise Exception("Estimated memory utilization ...")), before
\* mo_spin_eri is called, and leaves no MO on the engine.
C5_guard_raises_limit ==
    mode = "failed" =>
        /\ ret.val.err = "Exception"
        /\ eri_calls = 0
        /\ "MO" \notin attrs
        /\ IsErr(eng.MO)

\* C8: a call of one of the six builders or of compute_corr_energy() leaves the
\* engine's arrays as they were, and a call that repeats the call before it
\* returns the same value.
PureCalls == {"build_Fae", "build_Fmi", "build_Fme", "build_Wmnij", "build_Wabef",
              "build_Wmbej", "compute_corr_energy"}

C8_builders_pure ==
    [][(mode = "idle" /\ mode' = "idle" /\ ret'.f \in PureCalls)
          => /\ eng' = eng
             /\ prev' # <<>> => ret'.val = prev'[1]]_vars

\* build_Wabef has been called twice in a row on amplitudes an update() changed
C8_witness ==
    /\ mode = "idle" /\ nupd >= 1 /\ ret.f = "build_Wabef"
    /\ prev = <<ret.val>>
    /\ ~ IsErr(ret.val)
    /\ eng.t1 # ref0.t1

\* C9: in an update() call every statement but the two final assignments runs
\* on the t1 and t2 the call began with, t1 and t2 are each written once, by
\* those two assignments, and nothing but them follows the first write.
C9_amplitudes_written_last ==
    /\ mode = "update" =>
         /\ writes.t1 <= 1 /\ writes.t2 <= 1
         /\ update[pc].s # "setattr" => (eng.t1 = begin.t1 /\ eng.t2 = begin.t2)
         /\ writes.t1 = 0 => eng.t1 = begin.t1
         /\ writes.t2 = 0 => eng.t2 = begin.t2
         /\ writes.t1 + writes.t2 > 0 => \A k \in pc..Len(update) : update[k].s = "setattr"
    /\ (mode = "idle" /\ nupd >= 1) => (writes.t1 = 1 /\ writes.t2 = 1)

\* t1 has been replaced by other amplitudes, t2 is about to be, the residuals are complete
C9_witness ==
    /\ mode = "update" /\ pc = Len(update)
    /\ writes.t1 = 1 /\ writes.t2 = 0
    /\ eng.t1 # begin.t1 /\ eng.t2 = begin.t2
    /\ {"rhs_T1", "rhs_T2"} \subseteq DOMAIN loc

SixBuilders == {"build_Fae", "build_Fmi", "build_Fme", "build_Wmnij", "build_Wabef",
                "build_Wmbej"}

\* no intermediate of the six is computed from another: neither update() nor
\* a builder's body hands one to the construction of another
Independent ==
    /\ \A X \in Six \cap DOMAIN tdeps : tdeps[X] \cap Six = {}
    /\ \A f \in SixBuilders : \A k \in 1..Len(Body(f)) :
          Body(f)[k].s = "call" => Body(f)[k].f \notin SixBuilders

\* C10, as stated: in an update() call a residual exists only once all six
\* intermediates are built, and no intermediate is built from another.
C10_residuals_after_all_six ==
    /\ mode = "update" =>
         ({"rhs_T1", "rhs_T2"} \cap DOMAIN loc # {} => Six \subseteq DOMAIN loc)
    /\ Independent

\* C10, amended: in an update() call both residuals are begun after Fae, Fmi
\* and Fme are built, every statement reads only intermediates already built,
\* the residuals are complete (the final assignments are reached) only after
\* all six are built, and no intermediate is built from another.
C10_residuals_after_their_intermediates ==
    /\ mode = "update" =>
         /\ {"rhs_T1", "rhs_T2"} \cap DOMAIN loc # {}
               => {"Fae", "Fmi", "Fme"} \subseteq DOMAIN loc
         /\ StmtReads(update[pc]) \cap Six \subseteq DOMAIN loc
         /\ update[pc].s = "setattr" => Six \subseteq DOMAIN loc
    /\ Independent

\* the residuals are complete and all six intermediates are built
C10_witness ==
    /\ mode = "update" /\ update[pc].s = "setattr"
    /\ Six \subseteq DOMAIN loc
    /\ {"rhs_T1", "rhs_T2"} \subseteq DOMAIN loc
    /\ \A X \in Six : tdeps[X] = {}

(***************************************************************************)
(* Claims about the accessors, checked under SpecAccess.                   *)
(***************************************************************************)
ValidLabel(string, n) == Len(string) = n /\ \A k \in 1..n : string[k] \in {"o", "v"}

\* the exceptions that report a bad label string: the accessors' own
\* raise Exception("... must have N elements."), and the KeyError of slice_dict
InvalidLabel == {"Exception", "KeyError"}

\* C6: get_MO / get_F return the occupied / virtual block of MO / F for a
\* string over {o, v} of length 4 / 2, and fail with an invalid-label error
\* for every other string.
C6_accessors ==
    /\ ret.f = "get_MO" =>
         IF ValidLabel(ret.arg, 4) THEN ret.val = Slice(eng, eng.MO, ret.arg)
         ELSE ret.val.err \in InvalidLabel
    /\ ret.f = "get_F" =>
         IF ValidLabel(ret.arg, 2) THEN ret.val = Slice(eng, eng.F, ret.arg)
         ELSE ret.val.err \in InvalidLabel

(***************************************************************************)
(* Claims about ndot, checked under SpecNdot.                              *)
(***************************************************************************)
Tested == ndot_ret # <<>>

\* the preconditions of a contraction: no label repeated inside an operand's
\* string, every output label present in an operand, no output label repeated
ValidSpec ==
    /\ NoRepeat(call.L) /\ NoRepeat(call.R) /\ NoRepeat(call.O)
    /\ Range(call.O) \subseteq (Range(call.L) \cup Range(call.R))

Shared == Range(call.L) \cap Range(call.R)

ExtL(l) == call.op1.shape[Pos(call.L, l)]

ExtR(l) == call.op2.shape[Pos(call.R, l)]

Conforming == \A l \in Shared : ExtL(l) = ExtR(l)

\* C1: for a valid label string and conforming operands, ndot returns the
\* tensor the reference summation np.einsum returns.
C1_ndot_matches_einsum ==
    (Tested /\ ValidSpec /\ Conforming) => ndot_ret[1] = ein_ret[1]

\* C2: when a label shared by both operands has different extents in them,
\* ndot fails and returns no tensor.
C2_mismatch_fails ==
    (Tested /\ ValidSpec /\ ~ Conforming) => IsErr(ndot_ret[1])

\* C7: ndot with prefactor s is s times ndot without prefactor, entry by entry
\* (and fails exactly when ndot without prefactor fails).
C7_prefactor_scales ==
    (Tested /\ scaled # <<>>) => scaled[1].ret = Scale(ndot_ret[1], scaled[1].s)

\* ndot('ab,bc->ca', A, B, prefactor=-1) has returned a tensor with a nonzero
\* entry: the scale is applied, then the axes are permuted
C7_witness ==
    /\ Tested /\ scaled # <<>>
    /\ scaled[1].s = -1
    /\ call.L = <<"a", "b">> /\ call.R = <<"b", "c">> /\ call.O = <<"c", "a">>
    /\ ~ IsErr(scaled[1].ret)
    /\ \E n \in 1..Len(scaled[1].ret.data) : scaled[1].ret.data[n] # 0

====
